---- MODULE Spec2Model ----
(***************************************************************************)
(* A model of bulk_mailer.py: the run loop of main() with its skip rules,  *)
(* per-run cap, preview / live-send branch, per-send sleep, and the        *)
(* append-only send_log.csv written once at the end of a run.              *)
(*                                                                         *)
(* Text is a sequence of one-character strings, so that str.strip(),       *)
(* str.lower() and re.sub() are computed, not assumed.  A fixed template   *)
(* fragment of the program's prose is carried as one token.  A cell of the *)
(* loaded table is either pandas' float NaN (a cell with no value) or a    *)
(* text.                                                                   *)
(***************************************************************************)
EXTENDS Integers, Sequences, FiniteSets, TLC

\* ---------------------------------------------------------------- bounds
MaxRows == 2        \* rows in one input table
MaxCap == 2         \* largest --max of a run
MaxRuns == 2        \* runs of the program over the same working directory
MaxRunRows == 1     \* rows in one input table of the several-run specification

\* ------------------------------------------------------------------ text
UC == <<"A","B","C","D","E","F","G","H","I","J","K","L","M",
        "N","O","P","Q","R","S","T","U","V","W","X","Y","Z">>
LC == <<"a","b","c","d","e","f","g","h","i","j","k","l","m",
        "n","o","p","q","r","s","t","u","v","w","x","y","z">>
Digits == {"0","1","2","3","4","5","6","7","8","9"}
Whitespace == {" ", "\t", "\n", "\r"}

Range(f) == {f[k] : k \in DOMAIN f}

\* the lower-case letter of each upper-case letter
LowerOf == [c \in Range(UC) |-> LC[CHOOSE k \in DOMAIN UC : UC[k] = c]]

\* str.lower(), one character
LowerChar(c) == IF c \in DOMAIN LowerOf THEN LowerOf[c] ELSE c

\* str.lower()
Lower(s) == [k \in DOMAIN s |-> LowerChar(s[k])]

RECURSIVE LStrip(_)
LStrip(s) ==
    IF s # <<>> /\ Head(s) \in Whitespace THEN LStrip(Tail(s)) ELSE s

RECURSIVE RStrip(_)
RStrip(s) ==
    IF s # <<>> /\ s[Len(s)] \in Whitespace
    THEN RStrip(SubSeq(s, 1, Len(s) - 1))
    ELSE s

\* str.strip()
Strip(s) == RStrip(LStrip(s))

\* ----------------------------------------------------------------- cells
NaN == [kind |-> "float"]                 \* pandas' missing value
Text(s) == [kind |-> "str", v |-> s]      \* a cell holding text

\* pd.isna(cell)
IsNa(cell) == cell.kind = "float"

\* str(cell): the float NaN prints as "nan"
PyStr(cell) == IF cell.kind = "float" THEN <<"n","a","n">> ELSE cell.v

\* Python truthiness of a text
Truthy(s) == s # <<>>

PyNone == [kind |-> "None"]               \* Python's None

\* Python truthiness of a value that is None or a text
TruthyValue(x) == x.kind = "str" /\ Truthy(x.v)

\* ------------------------------------------------------- program constants
\* the statuses of a row already dealt with
TerminalStatuses == { <<"s","e","n","t">>, <<"d","o","n","e">>,
                      <<"b","o","u","n","c","e","d">> }

\* the characters re.sub(r"[^A-Za-z0-9_.-]+", "_", company) keeps
SafeChars == Range(UC) \cup Range(LC) \cup Digits \cup {"_", ".", "-"}

\* the length the sanitized company name is cut to
SafeCompanyLen == 60

\* the columns normalize_columns() may or may not find in the table
OptionalColumns == {"Website", "First Line", "Status"}

\* -------------------------------------------------------- pure functions
\* re.sub(r"[^A-Za-z0-9_.-]+", "_", s): every maximal run of other
\* characters becomes one underscore
RECURSIVE ReSubUnsafe(_, _)
ReSubUnsafe(s, inRun) ==
    IF s = <<>> THEN <<>>
    ELSE IF Head(s) \in SafeChars
         THEN <<Head(s)>> \o ReSubUnsafe(Tail(s), FALSE)
         ELSE IF inRun
              THEN ReSubUnsafe(Tail(s), TRUE)
              ELSE <<"_">> \o ReSubUnsafe(Tail(s), TRUE)

\* safe_company = re.sub(...)[:60]
SafeCompany(company) ==
    LET t == ReSubUnsafe(company, FALSE)
    IN  IF Len(t) > SafeCompanyLen THEN SubSeq(t, 1, SafeCompanyLen) ELSE t

\* the file named from the company as written, not sanitized
PreviewNameRaw(company, email) ==
    company \o <<"_", "_">> \o email \o <<".", "t", "x", "t">>

\* the preview file's name inside the outbox: f"{safe_company}__{email}.txt"
PreviewName(company, email) ==
    SafeCompany(company) \o <<"_", "_">> \o email \o <<".", "t", "x", "t">>

\* fallback_opener(company, blurb, your_role); the phrase taken from the
\* blurb and the role are carried as tokens
fallback_opener(company, blurb) ==
    IF Truthy(blurb)
    THEN <<"I've been looking into ">> \o company
            \o <<" and I really like your focus on {key}. ... as a {role}.">>
    ELSE <<"I've been exploring the work that ">> \o company
            \o <<" does and ... as a {role}.">>

\* the values of one row as main() reads them
CompanyOf(row) == Strip(PyStr(row.Company))
EmailOf(row) == Strip(PyStr(row.Email))
WebsiteOf(row, cols) ==
    IF "Website" \in cols THEN Strip(PyStr(row.Website)) ELSE <<>>

OpenerFromSheet(row, cols) ==
    IF "First Line" \in cols
    THEN IF IsNa(row.FirstLine) THEN <<>> ELSE Strip(PyStr(row.FirstLine))
    ELSE <<>>

StatusOf(row, cols) ==
    IF "Status" \in cols THEN Strip(PyStr(row.Status)) ELSE <<>>

\* if not company or not email: continue
MissingField(row) == ~Truthy(CompanyOf(row)) \/ ~Truthy(EmailOf(row))

\* the status compared as written, without lower()
StatusTerminalCaseSensitive(row, cols) == StatusOf(row, cols) \in TerminalStatuses

\* if status.lower() in {"sent", "done", "bounced"}: continue
StatusTerminal(row, cols) == Lower(StatusOf(row, cols)) \in TerminalStatuses

\* the row is passed over by one of the two continue statements
Skipped(row, cols) == MissingField(row) \/ StatusTerminal(row, cols)

\* the opener compared with "nan" as written, without lower()
IsNanOpenerCaseSensitive(opener) == opener = <<"n","a","n">>

\* if opener is None or str(opener).lower() == "nan"
IsNanOpener(opener) == Lower(opener) = <<"n","a","n">>

\* the opener after the safety check
SafeOpener(opener, company, blurb) ==
    IF IsNanOpener(opener) THEN fallback_opener(company, blurb) ELSE opener

\* ---------------------------------------------------------------- inputs
\* cells the input tables are built from
CompanyCells == { Text(<<"A"," ","b">>), Text(<<"A","_","b">>), Text(<<" ">>), NaN }
EmailCells == { Text(<<"e">>), Text(<<" ">>), NaN }
WebsiteCells == { Text(<<"w">>), NaN }
FirstLineCells == { NaN, Text(<<" ">>), Text(<<" ","H","i">>), Text(<<"N","a","n">>) }
StatusCells == { NaN, Text(<<" ","S","e","n","t">>), Text(<<"D","O","N","E">>),
                 Text(<<"b","o","u","n","c","e","d"," ">>) }

\* a complete lead that is due
BaseRow == [Company |-> Text(<<"A"," ","b">>), Website |-> Text(<<"w">>),
            Email |-> Text(<<"e">>), FirstLine |-> NaN, Status |-> NaN]

\* the base lead, and the base lead with one cell changed
VariedRows ==
    {[BaseRow EXCEPT !.Company = c] : c \in CompanyCells}
    \cup {[BaseRow EXCEPT !.Email = c] : c \in EmailCells}
    \cup {[BaseRow EXCEPT !.Website = c] : c \in WebsiteCells}
    \cup {[BaseRow EXCEPT !.FirstLine = c] : c \in FirstLineCells}
    \cup {[BaseRow EXCEPT !.Status = c] : c \in StatusCells}

\* a table without a column holds no value in it
Blanked(row, cols) ==
    [row EXCEPT !.Website = IF "Website" \in cols THEN @ ELSE NaN,
                !.FirstLine = IF "First Line" \in cols THEN @ ELSE NaN,
                !.Status = IF "Status" \in cols THEN @ ELSE NaN]

RowsFor(cols) == {Blanked(r, cols) : r \in VariedRows}

\* the tables of at most n rows with the optional columns cols
TablesFor(cols, n) == UNION {[1..k -> RowsFor(cols)] : k \in 0..n}

\* the command lines: --dry_run, --max, --rate_sec
ArgsSet == [dry_run : BOOLEAN, max : 0..MaxCap, rate_sec : {-1, 20}]

\* the values of SMTP_PASS in the environment
SmtpPassValues == { PyNone, Text(<<>>), Text(<<"p","w">>) }

\* what the website fetch may give back for a url: nothing, or a blurb
FetchResults(url) == IF Truthy(url) THEN { <<>>, <<"b">> } ELSE { <<>> }

\* openers the text-generation service may write
ServiceOpeners == { <<"G">>, <<"N","A","N">> }

\* gpt_company_personalization(company, website, blurb, role): the heuristic
\* opener (no key, a failed call, no OPENER tag) or the service's text
GptOpeners(company, blurb) == { fallback_opener(company, blurb) } \cup ServiceOpeners

\* ----------------------------------------------------------------- state
VARIABLES
    args,        \* the parsed command line of this run
    smtp_pass,   \* SMTP_PASS of this run's environment
    pc,          \* where main() is: start, loop, done, exit (fatal), crashed
    df,          \* the loaded table
    columns,     \* the optional columns the table has
    i,           \* position of the next row of df.iterrows()
    processed,   \* rows processed in this run
    sent_log,    \* the records of this run, in memory
    log_file,    \* send_log.csv: whether it exists, and its lines
    outbox,      \* names of the preview files in the output folder
    trace,       \* what this run did, in order (history)
    runs         \* runs started so far (history)

vars == <<args, smtp_pass, pc, df, columns, i, processed, sent_log,
          log_file, outbox, trace, runs>>

\* the header line csv.DictWriter writes
HeaderLine == [kind |-> "header",
               fields |-> <<"timestamp", "company", "email", "website",
                            "greeting", "first_line", "subject", "result">>]

\* the line written for one record
RecordLine(rec) == [kind |-> "row", values |-> rec]

Event(op, row, ok) == [op |-> op, row |-> row, ok |-> ok]

PREVIEWED == <<"PREVIEWED">>
SENT == <<"SENT">>
ERROR == <<"ERROR: ", "{e}">>

\* the state a process starts in, in a working directory without send_log.csv
Init ==
    /\ args \in ArgsSet
    /\ smtp_pass \in SmtpPassValues
    /\ pc = "start"
    /\ df = <<>>
    /\ columns = {}
    /\ i = 1
    /\ processed = 0
    /\ sent_log = <<>>
    /\ log_file = [exists |-> FALSE, lines |-> <<>>]
    /\ outbox = {}
    /\ trace = <<>>
    /\ runs = 1

\* the credential tested with "is None": an empty SMTP_PASS passes
MissingCredentialNoneOnly == ~args.dry_run /\ smtp_pass = PyNone

\* if not args.dry_run and not smtp_pass: raise SystemExit(...)
MissingCredential == ~args.dry_run /\ ~TruthyValue(smtp_pass)

\* the optional columns of the tables loaded: all of them, or none
ColumnSets == { OptionalColumns, {} }

\* the tables load_leads() and normalize_columns() may hand to the loop:
\* at most n rows
Loads(n) ==
    UNION { { [cols |-> c, table |-> t] : t \in TablesFor(c, n) }
            : c \in ColumnSets }

\* the leads of the several-run specification: one with a first line of its
\* own, one already sent
RunRows == { [BaseRow EXCEPT !.FirstLine = Text(<<" ","H","i">>)],
             [BaseRow EXCEPT !.Status = Text(<<" ","S","e","n","t">>)] }

RunLoads(n) ==
    { [cols |-> OptionalColumns, table |-> t]
      : t \in UNION {[1..k -> RunRows] : k \in 0..n} }

\* main() up to the loop: the credential check, then one of the tables of
\* loads is loaded and the per-run state set up
StartWith(loads) ==
    /\ pc = "start"
    /\ IF MissingCredential
       THEN /\ pc' = "exit"
            /\ UNCHANGED <<df, columns>>
       ELSE /\ pc' = "loop"
            /\ \E l \in loads :
                    /\ df' = l.table
                    /\ columns' = l.cols
    /\ i' = 1
    /\ processed' = 0
    /\ sent_log' = <<>>
    /\ UNCHANGED <<args, smtp_pass, log_file, outbox, trace, runs>>

Start == StartWith(Loads(MaxRows))

StartRuns == StartWith(RunLoads(MaxRunRows))

\* load_leads() cannot read the file, or a required column is missing
LoadFails ==
    /\ pc = "start"
    /\ ~MissingCredential
    /\ pc' = "exit"
    /\ UNCHANGED <<args, smtp_pass, df, columns, i, processed, sent_log,
                   log_file, outbox, trace, runs>>

\* the cap tested with > where the program has >=
CapReachedOffByOne == processed > args.max

\* if processed >= args.max: break
CapReached == processed >= args.max

\* the loop goes on to a row
AtRow == pc = "loop" /\ i <= Len(df) /\ ~CapReached

\* one iteration that ends in a continue
SkipRow ==
    /\ AtRow
    /\ Skipped(df[i], columns)
    /\ i' = i + 1
    /\ UNCHANGED <<args, smtp_pass, pc, df, columns, processed, sent_log,
                   log_file, outbox, trace, runs>>

\* the record appended for a row
LogRecord(row, opener, result) ==
    [company |-> CompanyOf(row), email |-> EmailOf(row),
     website |-> WebsiteOf(row, columns), greeting |-> <<>>,
     first_line |-> opener, result |-> result]

\* the calls made to obtain the opener of a row
OpenerCalls(row) ==
    IF Truthy(OpenerFromSheet(row, columns))
    THEN <<>>
    ELSE << Event("scrape", i, TRUE), Event("personalize", i, TRUE) >>

\* the openers of a row when the sheet's first line is not looked at
OpenersIgnoringSheet(row) ==
    UNION { { SafeOpener(o, CompanyOf(row), b) : o \in GptOpeners(CompanyOf(row), b) }
            : b \in FetchResults(WebsiteOf(row, columns)) }

\* the openers a row may get: the sheet's, or what scrape and
\* personalization give, each passed through the safety check
Openers(row) ==
    IF Truthy(OpenerFromSheet(row, columns))
    THEN { SafeOpener(OpenerFromSheet(row, columns), CompanyOf(row), <<>>) }
    ELSE UNION { { SafeOpener(o, CompanyOf(row), b) : o \in GptOpeners(CompanyOf(row), b) }
                 : b \in FetchResults(WebsiteOf(row, columns)) }

\* build_email_body(): the sentence that wraps the opener, its first letter
\* lower-cased, or the generic sentence when the opener is empty
opener_block(opener) ==
    IF Truthy(opener)
    THEN <<"I'm fascinated by how ">> \o <<LowerChar(Head(opener))>> \o Tail(opener)
    ELSE <<"I'm fascinated by how your work fits into ... landscape.">>

\* the call build_email_body(company, greeting, opener, website, your_name)
\* of a row, with the opener it is given and the sentence it builds from it
Composed(opener) ==
    << [op |-> "compose", row |-> i, ok |-> TRUE,
        opener |-> opener, block |-> opener_block(opener)] >>

\* sent_log.append({...}); processed += 1
AppendRecord(row, opener, result, events) ==
    /\ sent_log' = Append(sent_log, LogRecord(row, opener, result))
    /\ processed' = processed + 1
    /\ i' = i + 1
    /\ trace' = trace \o OpenerCalls(row) \o Composed(opener) \o events
                      \o << Event("log", i, TRUE) >>
    /\ pc' = pc

\* one iteration of a dry run: the preview file is written; or open()
\* raises (a path separator in the email, a folder that cannot be written)
\* and no file is made, or write() raises (a full disk) on the file just
\* made. Nothing catches either: main() ends with the exception
PreviewRow ==
    /\ AtRow
    /\ ~Skipped(df[i], columns)
    /\ args.dry_run
    /\ \E opener \in Openers(df[i]) :
         \/ /\ outbox' = outbox \cup { PreviewName(CompanyOf(df[i]), EmailOf(df[i])) }
            /\ AppendRecord(df[i], opener, PREVIEWED, << Event("preview", i, TRUE) >>)
         \/ /\ pc' = "crashed"
            /\ trace' = trace \o OpenerCalls(df[i]) \o Composed(opener)
                              \o << Event("preview", i, FALSE) >>
            /\ \/ outbox' = outbox
               \/ outbox' = outbox \cup { PreviewName(CompanyOf(df[i]), EmailOf(df[i])) }
            /\ UNCHANGED <<sent_log, processed, i>>
    /\ UNCHANGED <<args, smtp_pass, df, columns, log_file, runs>>

\* a send that returned, with no sleep after it
SendSuccessNoSleep(row, opener) ==
    AppendRecord(row, opener, SENT, << Event("send", i, TRUE) >>)

\* try: send_email(...) returned; result = "SENT"; time.sleep(args.rate_sec).
\* time.sleep() raises ValueError on a negative delay, inside the same try
SendSuccess(row, opener) ==
    IF args.rate_sec >= 0
    THEN AppendRecord(row, opener, SENT,
                      << Event("send", i, TRUE), Event("sleep", i, TRUE) >>)
    ELSE AppendRecord(row, opener, ERROR,
                      << Event("send", i, TRUE), Event("sleep", i, FALSE) >>)

\* a send that raised, with no except clause around it
SendFailureAborts(row, opener) ==
    /\ pc' = "crashed"
    /\ trace' = trace \o OpenerCalls(row) \o Composed(opener)
                      \o << Event("send", i, FALSE) >>
    /\ UNCHANGED <<sent_log, processed, i>>

\* except Exception as e: result = f"ERROR: {e}", after send_email() raised
SendFailure(row, opener) ==
    AppendRecord(row, opener, ERROR, << Event("send", i, FALSE) >>)

\* one iteration of a live run: send_email() returns and the loop sleeps, or
\* send_email() raises and the except clause takes it
SendRow ==
    /\ AtRow
    /\ ~Skipped(df[i], columns)
    /\ ~args.dry_run
    /\ \E opener \in Openers(df[i]) :
         \/ SendSuccess(df[i], opener)
         \/ SendFailure(df[i], opener)
    /\ UNCHANGED <<args, smtp_pass, df, columns, log_file, outbox, runs>>

\* the header written by every run
WriteHeaderAlways == TRUE

\* write_header = not sent_log_path.exists()
WriteHeader == ~log_file.exists

\* the loop is over (break, or no row left): the log is appended to the file
Finish ==
    /\ pc = "loop"
    /\ (i > Len(df) \/ CapReached)
    /\ log_file' = [exists |-> TRUE,
                    lines |-> log_file.lines
                              \o (IF WriteHeader THEN <<HeaderLine>> ELSE <<>>)
                              \o [k \in DOMAIN sent_log |-> RecordLine(sent_log[k])]]
    /\ pc' = "done"
    /\ UNCHANGED <<args, smtp_pass, df, columns, i, processed, sent_log,
                   outbox, trace, runs>>

\* the program is started again in the same working directory
NewRun ==
    /\ pc \in {"done", "exit", "crashed"}
    /\ runs < MaxRuns
    /\ args' \in ArgsSet
    /\ smtp_pass' \in SmtpPassValues
    /\ pc' = "start"
    /\ df' = <<>>
    /\ columns' = {}
    /\ i' = 1
    /\ processed' = 0
    /\ sent_log' = <<>>
    /\ trace' = <<>>
    /\ runs' = runs + 1
    /\ UNCHANGED <<log_file, outbox>>

Next == Start \/ LoadFails \/ SkipRow \/ PreviewRow \/ SendRow \/ Finish

\* one run of the program
Spec == Init /\ [][Next]_vars

NextRuns ==
    StartRuns \/ LoadFails \/ SkipRow \/ PreviewRow \/ SendRow \/ Finish \/ NewRun

\* several runs, one after the other, over the same send_log.csv
SpecRuns == Init /\ [][NextRuns]_vars

\* ------------------------------------------------------ reading the history
Min(a, b) == IF a <= b THEN a ELSE b

\* the positions of the rows neither continue statement passes over, in order
NonSkippedIdx ==
    SelectSeq([k \in 1..Len(df) |-> k], LAMBDA j : ~Skipped(df[j], columns))

\* the rows a record was appended for, in order
LoggedRows ==
    LET l == SelectSeq(trace, LAMBDA e : e.op = "log")
    IN  [k \in DOMAIN l |-> l[k].row]

\* the positions in the history of the events of one kind
EventsAt(op) == {k \in DOMAIN trace : trace[k].op = op}

\* nothing was done for row j: no scrape, personalization, preview, send,
\* sleep or record
Untouched(j) == \A k \in DOMAIN trace : trace[k].row # j

\* ------------------------------------------------------------------ claims
\* C1: with cap N >= 0 the rows processed (logged and counted) in a run are
\* the first min(N, number of non-skipped rows) non-skipped rows in table
\* order, nothing is done for any later row, and a run that reaches the end
\* of its loop has processed exactly min(N, number of non-skipped rows).
C1_CapOnProcessedRows ==
    \A ns \in {NonSkippedIdx} :
        LET n == Min(args.max, Len(ns))
        IN  /\ processed = Len(sent_log)
            /\ processed <= n
            /\ LoggedRows = SubSeq(ns, 1, processed)
            /\ \A k \in DOMAIN sent_log :
                  /\ sent_log[k].company = CompanyOf(df[ns[k]])
                  /\ sent_log[k].email = EmailOf(df[ns[k]])
            /\ \A k \in DOMAIN trace : \E m \in 1..n : trace[k].row = ns[m]
            /\ pc = "done" => processed = n

\* a cap of 1 over two rows that are not skipped: the run ends with one processed
C1_Witness ==
    /\ pc = "done"
    /\ args.max = 1
    /\ Len(NonSkippedIdx) = 2
    /\ processed = 1

\* the Status of the row, trimmed and with letter case ignored, is sent,
\* done or bounced
C2_TerminalRow(row) ==
    /\ "Status" \in columns
    /\ row.Status.kind = "str"
    /\ Lower(Strip(row.Status.v)) \in TerminalStatuses

\* C2: for a row whose Status (trimmed, any letter case) is sent, done or
\* bounced nothing is done: no scrape, personalization, preview, send or
\* record, and the processed counter counts only the rows with a record.
C2_TerminalStatusSkipped ==
    /\ \A j \in DOMAIN df : C2_TerminalRow(df[j]) => Untouched(j)
    /\ processed = Cardinality(EventsAt("log"))
    /\ processed = Len(sent_log)

\* the loop went past a row with a terminal status while the cap was open
C2_Witness ==
    /\ pc = "done"
    /\ processed < args.max
    /\ \E j \in DOMAIN df : C2_TerminalRow(df[j]) /\ j < i

\* the cell holds no value: empty, whitespace only, or no value in the table
C3_MissingCell(cell) == cell.kind = "float" \/ Strip(cell.v) = <<>>

\* C3: for a row whose Company or Email is missing (empty, whitespace only,
\* or without a value in the loaded table) nothing is done: no scrape,
\* personalization, preview, send or record, and it is not counted.
C3_MissingFieldSkipped ==
    \A j \in DOMAIN df :
        (C3_MissingCell(df[j].Company) \/ C3_MissingCell(df[j].Email))
            => Untouched(j)

\* the record appended at position k of the history
RecordAt(k) == sent_log[Cardinality({m \in EventsAt("log") : m <= k})]

\* the events of row j of one kind
RowEvents(op, j) == {k \in EventsAt(op) : trace[k].row = j}

\* C4: in a live run a send that raises is caught: the row gets a record
\* with an error description, it is counted, it is not sent again, the run
\* does not abort, and the rows after it are handled up to the cap.
C4_SendFailureAbsorbed ==
    ~args.dry_run =>
        /\ pc # "crashed"
        /\ \A k \in EventsAt("send") :
              ~trace[k].ok =>
                 /\ k + 1 \in DOMAIN trace
                 /\ trace[k + 1] = Event("log", trace[k].row, TRUE)
                 /\ RecordAt(k + 1).result = ERROR
                 /\ RecordAt(k + 1).email = EmailOf(df[trace[k].row])
                 /\ Cardinality(RowEvents("send", trace[k].row)) = 1
                 /\ i > trace[k].row
                 /\ processed >= Cardinality({m \in EventsAt("log") : m <= k + 1})
        /\ pc = "done" => processed = Min(args.max, Len(NonSkippedIdx))

\* the send of the first row raised and the run went on to send the second
C4_Witness ==
    /\ ~args.dry_run
    /\ pc = "done"
    /\ \E k \in EventsAt("send") : ~trace[k].ok /\ trace[k].row = 1
    /\ RowEvents("send", 2) # {}
    /\ processed = 2

\* the rows that came to a preview or a send
ActedRows == {trace[k].row : k \in EventsAt("preview") \cup EventsAt("send")}

\* the records in send_log.csv
FileRecords == SelectSeq(log_file.lines, LAMBDA l : l.kind = "row")

\* C5: whatever happens while a row is previewed or sent, when the run ends
\* the log file holds exactly one record for each row that came to a
\* preview or send, with result PREVIEWED, SENT or an error description.
C5_EveryRowLogged ==
    pc \in {"done", "crashed"} =>
        /\ Len(FileRecords) = Cardinality(ActedRows)
        /\ \A k \in DOMAIN FileRecords :
              FileRecords[k].values.result \in {PREVIEWED, SENT, ERROR}

\* the name the claim gives the preview of a row: sanitized company, email
C6_Name(row) ==
    SafeCompany(CompanyOf(row)) \o <<"_", "_">> \o EmailOf(row) \o <<".", "t", "x", "t">>

\* C6 as claimed: a dry run never sends and leaves one preview file for
\* each processed row, k files for k rows.
C6_OneFilePerProcessedRow ==
    (args.dry_run /\ pc = "done") =>
        /\ EventsAt("send") = {}
        /\ Cardinality(outbox) = processed

\* C6, amended: a dry run never sends; each processed row has exactly one
\* preview write, to the file named from its sanitized company and its
\* email; the files a completed run leaves are the names of its processed
\* rows, as many as there are distinct names among them.
C6_PreviewWrittenPerRow ==
    args.dry_run =>
        /\ EventsAt("send") = {}
        /\ \A j \in Range(LoggedRows) :
              /\ Cardinality(RowEvents("preview", j)) = 1
              /\ \A k \in RowEvents("preview", j) : trace[k].ok
              /\ C6_Name(df[j]) \in outbox
        /\ outbox \subseteq {C6_Name(df[trace[k].row]) : k \in EventsAt("preview")}
        /\ pc = "done" =>
              /\ outbox = {C6_Name(df[j]) : j \in Range(LoggedRows)}
              /\ Cardinality(outbox) <= processed

\* two processed rows whose names coincide left one preview file
C6_Witness ==
    /\ args.dry_run
    /\ pc = "done"
    /\ processed = 2
    /\ Cardinality(outbox) = 1
    /\ df[1] # df[2]

\* the First Line of the row, trimmed; empty when the table has none
C7_Override(row) ==
    IF "First Line" \in columns /\ row.FirstLine.kind = "str"
    THEN Strip(row.FirstLine.v)
    ELSE <<>>

\* no scrape and no personalization was made for row j
NoGeneration(j) == RowEvents("scrape", j) = {} /\ RowEvents("personalize", j) = {}

\* C7 as claimed: a row with a First Line override is neither scraped nor
\* personalized, and the override itself is its opener in the record.
C7_OverrideUsedVerbatim ==
    /\ \A j \in DOMAIN df : Truthy(C7_Override(df[j])) => NoGeneration(j)
    /\ \A k \in DOMAIN sent_log :
          Truthy(C7_Override(df[LoggedRows[k]]))
             => sent_log[k].first_line = C7_Override(df[LoggedRows[k]])

\* C7, amended: a row with a First Line that is not empty after trimming is
\* neither scraped nor personalized; its opener is the trimmed First Line,
\* unless that reads "nan" in any letter case, and then it is the heuristic
\* fallback opener.
C7_OverrideSkipsGeneration ==
    /\ \A j \in DOMAIN df : Truthy(C7_Override(df[j])) => NoGeneration(j)
    /\ \A k \in DOMAIN sent_log :
          LET row == df[LoggedRows[k]]
              ov == C7_Override(row)
          IN  Truthy(ov) =>
                 sent_log[k].first_line =
                    IF Lower(ov) = <<"n","a","n">>
                    THEN fallback_opener(CompanyOf(row), <<>>)
                    ELSE ov

\* a row with the first line " Hi" was processed with the opener "Hi"
C7_Witness ==
    /\ pc = "done"
    /\ \E k \in DOMAIN sent_log :
          /\ C7_Override(df[LoggedRows[k]]) = <<"H","i">>
          /\ sent_log[k].first_line = <<"H","i">>

\* C8 as claimed: in a live run a sleep separates any two consecutive send
\* attempts; a dry run never sleeps.
C8_SleepBetweenAttempts ==
    /\ \A k, m \in EventsAt("send") :
          k < m => \E n \in EventsAt("sleep") : k < n /\ n < m
    /\ args.dry_run => EventsAt("sleep") = {}

\* C8, amended: in a live run time.sleep is called with the configured
\* delay right after each send that returned, before the row is logged and
\* the next row handled (the call raises when the delay is negative), and
\* is not called after a send that raised; a dry run never sleeps.
C8_SleepAfterSuccessfulSend ==
    /\ \A k \in EventsAt("send") :
          /\ k + 1 \in DOMAIN trace
          /\ IF trace[k].ok
             THEN trace[k + 1] = Event("sleep", trace[k].row, args.rate_sec >= 0)
             ELSE trace[k + 1].op # "sleep"
    /\ \A n \in EventsAt("sleep") :
          /\ n > 1
          /\ trace[n - 1] = Event("send", trace[n].row, TRUE)
    /\ args.dry_run => EventsAt("sleep") = {}

\* the first row was sent, the loop slept, and the second row was sent
C8_Witness ==
    /\ ~args.dry_run
    /\ pc = "done"
    /\ \E k \in RowEvents("send", 1) :
          trace[k].ok /\ trace[k + 1] = Event("sleep", 1, TRUE)
    /\ RowEvents("send", 2) # {}

\* C9: a live run without SMTP_PASS exits before any row: nothing is
\* loaded, scraped, personalized, previewed, sent or logged.
C9_NoCredentialNoRow ==
    (~args.dry_run /\ (smtp_pass.kind = "None" \/ smtp_pass.v = <<>>)) =>
        /\ pc \in {"start", "exit"}
        /\ df = <<>>
        /\ trace = <<>>
        /\ sent_log = <<>>
        /\ processed = 0
        /\ outbox = {}
        /\ ~log_file.exists

\* a live run without SMTP_PASS has exited
C9_Witness ==
    /\ ~args.dry_run
    /\ (smtp_pass.kind = "None" \/ smtp_pass.v = <<>>)
    /\ pc = "exit"

\* the file is absent and empty, or starts with the one header it holds
LogWellFormed ==
    IF log_file.exists
    THEN /\ Len(log_file.lines) >= 1
         /\ log_file.lines[1] = HeaderLine
         /\ \A k \in 2..Len(log_file.lines) : log_file.lines[k].kind = "row"
    ELSE log_file.lines = <<>>

\* a step keeps what the file holds; it changes the file only when a run
\* completes, and then adds the header if there was no file, and the
\* records of the run
LogStep ==
    /\ log_file.exists => log_file'.exists
    /\ Len(log_file'.lines) >= Len(log_file.lines)
    /\ SubSeq(log_file'.lines, 1, Len(log_file.lines)) = log_file.lines
    /\ log_file' # log_file => (pc = "loop" /\ pc' = "done")
    /\ (pc = "loop" /\ pc' = "done") =>
          log_file'.lines =
             log_file.lines
                \o (IF log_file.exists THEN <<>> ELSE <<HeaderLine>>)
                \o [k \in DOMAIN sent_log |-> RecordLine(sent_log[k])]

\* C10: over the runs that write the same log file the file is append-only
\* and holds the header once, as its first line: only a run that finds no
\* file writes it, and each run appends its records after what is there.
C10_LogAppendOnly == []LogWellFormed /\ [][LogStep]_vars

\* a second run has added its records after those of the first
C10_Witness ==
    /\ runs = 2
    /\ pc = "done"
    /\ sent_log # <<>>
    /\ Len(log_file.lines) > 1 + Len(sent_log)
    /\ log_file.lines[1] = HeaderLine

\* the text reads "nan" in some letter case
C11_ReadsNan(s) == Lower(s) = <<"n","a","n">>

\* C11: whichever path gave the opener of a processed row (First Line
\* override, the service's text, the heuristic), the opener the body is
\* composed from is the one stored as first_line of the record and never
\* reads "nan" in any letter case, nor does the body's sentence wrap "nan";
\* a First Line that reads "nan" is replaced by the heuristic fallback
\* opener before the body is built.
C11_OpenerNeverNan ==
    /\ \A k \in EventsAt("compose") :
          /\ ~C11_ReadsNan(trace[k].opener)
          /\ trace[k].block # <<"I'm fascinated by how ", "n", "a", "n">>
    /\ \A k \in DOMAIN sent_log :
          LET row == df[LoggedRows[k]]
          IN  /\ ~C11_ReadsNan(sent_log[k].first_line)
              /\ \E m \in RowEvents("compose", LoggedRows[k]) :
                    trace[m].opener = sent_log[k].first_line
              /\ Cardinality(RowEvents("compose", LoggedRows[k])) = 1
              /\ C11_ReadsNan(C7_Override(row)) =>
                    sent_log[k].first_line = fallback_opener(CompanyOf(row), <<>>)

\* a row whose First Line reads "Nan" was processed with the fallback opener
C11_Witness ==
    /\ pc = "done"
    /\ \E k \in DOMAIN sent_log :
          /\ C11_ReadsNan(C7_Override(df[LoggedRows[k]]))
          /\ sent_log[k].first_line = fallback_opener(CompanyOf(df[LoggedRows[k]]), <<>>)
          /\ RowEvents("compose", LoggedRows[k]) # {}

====
